---- MODULE Spec2Model ----
(***************************************************************************)
(* A model of simple_newsletter.py: the portfolio-history aggregation      *)
(* (get_portfolio_history), the feed reader (get_news, is_article_fresh)   *)
(* and the top-level run (main).                                           *)
(*                                                                         *)
(* Conventions.  A Python value that may be None is a sequence of length   *)
(* at most one (None == <<>>, Some(x) == <<x>>).  A Python dict is the     *)
(* sequence of its entries in insertion order.  A percentage is kept in    *)
(* tenths of a percent, rounded as the '.1f' format rounds it; comparisons *)
(* the code makes on the unrounded float are made exactly, by cross        *)
(* multiplication.  Time is counted in whole hours, dates in whole days.   *)
(***************************************************************************)
EXTENDS Integers, Sequences, FiniteSets, TLC

VARIABLES
    pc,                 \* position of the running call
    sheet,              \* state of the spreadsheet service for this call
    rows,               \* worksheet.get_all_records() of the sheet that is read
    USER_PORTFOLIO,     \* the module-level ticker list
    portfolio_history,  \* the text get_portfolio_history returned
    calc,               \* the locals of the last get_portfolio_history call
    feeds,              \* what each feed URL serves
    all_articles,       \* get_news: everything fetched
    fresh_articles,     \* get_news: after the freshness filter
    unique_articles,    \* get_news: its return value
    pub_date_str,       \* is_article_fresh: its argument
    fresh,              \* is_article_fresh: its return value
    credentials,        \* state of service_account.json
    gc,                 \* main: the spreadsheet client (TRUE) or None (FALSE)
    news_text,          \* main: the text prepare_news_text returned
    newsletter,         \* main: the text handed to save_newsletter/send_email
    archive,            \* the archive file of today
    mail,               \* what became of the mail attempt
    trace               \* main: the steps performed so far, in order

vars == <<pc, sheet, rows, USER_PORTFOLIO, portfolio_history, calc, feeds,
          all_articles, fresh_articles, unique_articles, pub_date_str, fresh,
          credentials, gc, news_text, newsletter, archive, mail, trace>>

---------------------------------------------------------------------------
(* Bounds of the model *)

MaxRows == 3          \* rows of the sheet in SpecHistory
MaxSheetRows == 2     \* rows of the sheet in a run of main
MaxItems == 2         \* items one feed serves in SpecNews
MaxMainItems == 1     \* items one feed serves in a run of main
MaxHour == 60         \* latest publish hour in SpecFresh
MaxDates == 3         \* distinct dates of the sheet in SpecClosest

---------------------------------------------------------------------------
(* Python values *)

None == <<>>
Some(x) == <<x>>
Val(o) == o[1]

Abs(x) == IF x < 0 THEN -x ELSE x

\* round(n / d) to an integer, ties to even, for d # 0
RoundDiv(n, d) ==
    LET nn == IF d < 0 THEN -n ELSE n
        dd == Abs(d)
        q  == nn \div dd
        r  == nn - q * dd
    IN  IF 2 * r < dd THEN q
        ELSE IF 2 * r > dd THEN q + 1
        ELSE IF q % 2 = 0 THEN q ELSE q + 1

\* (a - b) / b * 100, shown with one decimal: tenths of a percent
PctChange(a, b) == RoundDiv((a - b) * 1000, b)

\* n1/d1 < n2/d2, exactly
RatLess(n1, d1, n2, d2) ==
    IF (d1 > 0) = (d2 > 0) THEN n1 * d2 < n2 * d1 ELSE n1 * d2 > n2 * d1

RECURSIVE SumSeq(_)
SumSeq(s) == IF s = <<>> THEN 0 ELSE s[1] + SumSeq(Tail(s))

---------------------------------------------------------------------------
(* Dates and tickers: the strings of the model and their order *)

\* str comparison of the date strings (sorted(all_dates))
DateLexRank ==
    [d \in {"02/01/2024", "05/01/2024", "2023-12-10", "2023-12-31", "2024-01-01",
            "2024-01-02", "2024-01-08", "n/a"} |->
        CASE d = "02/01/2024" -> 1
          [] d = "05/01/2024" -> 2
          [] d = "2023-12-10" -> 3
          [] d = "2023-12-31" -> 4
          [] d = "2024-01-01" -> 5
          [] d = "2024-01-02" -> 6
          [] d = "2024-01-08" -> 7
          [] d = "n/a"        -> 8]

\* strptime '%Y-%m-%d', then '%d/%m/%Y': the day number (2023-12-01 is day 1)
ParseDate(d) ==
    CASE d = "2023-12-10" -> Some(10)
      [] d = "2023-12-31" -> Some(31)
      [] d = "2024-01-01" -> Some(32)
      [] d = "2024-01-02" -> Some(33)
      [] d = "02/01/2024" -> Some(33)
      [] d = "05/01/2024" -> Some(36)
      [] d = "2024-01-08" -> Some(39)
      [] OTHER            -> None

\* str comparison of the ticker strings (sorted(ticker_history.keys()))
TickerRank ==
    [t \in {"AAPL", "ERROR1", "MSFT"} |->
        CASE t = "AAPL" -> 1 [] t = "ERROR1" -> 2 [] t = "MSFT" -> 3]

\* s sorted ascending by rank
SortedBy(S, rank) ==
    CHOOSE s \in [1..Cardinality(S) -> S] :
        \A i, j \in 1..Cardinality(S) : i < j => rank[s[i]] < rank[s[j]]

---------------------------------------------------------------------------
(* get_portfolio_history *)

\* a cell of the 'value' column: float(...) succeeds (ok) with num, or raises
Num(n) == [ok |-> TRUE, num |-> n]
Bad == [ok |-> FALSE, num |-> 0]

\* float(str(value).replace(',', '').replace('$', '')) or the except branch
ParseValue(v) == IF v.ok THEN Some(v.num) ELSE None

\* vals.get(d)
DictGet(vals, d) ==
    LET idx == {i \in DOMAIN vals : vals[i].date = d}
    IN  IF idx = {} THEN None ELSE Some(vals[CHOOSE i \in idx : TRUE].value)

\* vals[d] = v: a new key is appended, an old key keeps its place
DictSet(vals, d, v) ==
    IF \E i \in DOMAIN vals : vals[i].date = d
    THEN [i \in DOMAIN vals |->
            IF vals[i].date = d THEN [date |-> d, value |-> v] ELSE vals[i]]
    ELSE Append(vals, [date |-> d, value |-> v])

\* ticker_history[ticker][date] = value
HistoryPut(th, ticker, date, value) ==
    IF \E i \in DOMAIN th : th[i].ticker = ticker
    THEN [i \in DOMAIN th |->
            IF th[i].ticker = ticker
            THEN [ticker |-> ticker, vals |-> DictSet(th[i].vals, date, value)]
            ELSE th[i]]
    ELSE Append(th, [ticker |-> ticker,
                     vals |-> <<[date |-> date, value |-> value]>>])

\* the loop over rows: rows without ticker, date or parsable value are skipped
RECURSIVE BuildTickerHistory(_)
BuildTickerHistory(rws) ==
    IF rws = <<>> THEN <<>>
    ELSE LET prev  == BuildTickerHistory(SubSeq(rws, 1, Len(rws) - 1))
             row   == rws[Len(rws)]
             value == ParseValue(row.value)
         IN  IF row.ticker = "" \/ row.date = "" \/ value = None
             THEN prev
             ELSE HistoryPut(prev, row.ticker, row.date, Val(value))

AllDates(th) ==
    UNION {{th[i].vals[j].date : j \in DOMAIN th[i].vals} : i \in DOMAIN th}

\* a variant of ScanClosest that compares with <=: the last minimum wins
RECURSIVE ScanClosestLastWins(_, _, _, _, _)
ScanClosestLastWins(target_dt, dates, i, closest, min_diff) ==
    IF i > Len(dates) THEN closest
    ELSE LET dt == ParseDate(dates[i])
         IN  IF dt = None
             THEN ScanClosestLastWins(target_dt, dates, i + 1, closest, min_diff)
             ELSE LET diff == Abs(Val(dt) - target_dt)
                  IN  IF min_diff = None \/ diff <= Val(min_diff)
                      THEN ScanClosestLastWins(target_dt, dates, i + 1,
                                               Some(dates[i]), Some(diff))
                      ELSE ScanClosestLastWins(target_dt, dates, i + 1,
                                               closest, min_diff)

RECURSIVE ScanClosest(_, _, _, _, _)
ScanClosest(target_dt, dates, i, closest, min_diff) ==
    IF i > Len(dates) THEN closest
    ELSE LET dt == ParseDate(dates[i])
         IN  IF dt = None
             THEN ScanClosest(target_dt, dates, i + 1, closest, min_diff)
             ELSE LET diff == Abs(Val(dt) - target_dt)
                  IN  IF min_diff = None \/ diff < Val(min_diff)
                      THEN ScanClosest(target_dt, dates, i + 1,
                                       Some(dates[i]), Some(diff))
                      ELSE ScanClosest(target_dt, dates, i + 1, closest, min_diff)

\* find_closest_date(latest_dt - timedelta(days), sorted_dates) if latest_dt
find_closest_date(latest_dt, days, dates) ==
    IF latest_dt = None THEN None
    ELSE ScanClosest(Val(latest_dt) - days, dates, 1, None, None)

\* sum(vals.get(latest_date, 0) for vals in ticker_history.values())
TotalLatest(th, latest_date) ==
    SumSeq([i \in DOMAIN th |->
              LET v == DictGet(th[i].vals, latest_date)
              IN  IF v = None THEN 0 ELSE Val(v)])

\* a variant of LatestTickers that forgets the 'if latest_date in vals' filter
LatestTickersUnfiltered(th, latest_date) == [i \in DOMAIN th |-> th[i].ticker]

\* [t for t, vals in ticker_history.items() if latest_date in vals]
LatestTickers(th, latest_date) ==
    LET keep == SelectSeq(th, LAMBDA e : DictGet(e.vals, latest_date) # None)
    IN  [i \in DOMAIN keep |-> keep[i].ticker]

\* a variant of WeightPct that forgets the factor 100
WeightFraction(current_val, total_latest) ==
    IF total_latest # 0 THEN RoundDiv(current_val * 10, total_latest) ELSE 0

\* (current_val / total_latest * 100) if total_latest else 0
WeightPct(current_val, total_latest) ==
    IF total_latest # 0 THEN RoundDiv(current_val * 1000, total_latest) ELSE 0

\* ((current_val - base) / base * 100) if base else None
ChangePct(current_val, base) ==
    IF base # None /\ Val(base) # 0
    THEN Some(PctChange(current_val, Val(base)))
    ELSE None

\* max(vals.values())
PeakVal(vals) ==
    CHOOSE m \in {vals[i].value : i \in DOMAIN vals} :
        \A i \in DOMAIN vals : vals[i].value <= m

\* max(vals, key=vals.get): the first key, in insertion order, of a maximal value
PeakDate(vals) ==
    vals[CHOOSE i \in DOMAIN vals :
            /\ vals[i].value = PeakVal(vals)
            /\ \A j \in DOMAIN vals : vals[j].value = PeakVal(vals) => i <= j].date

\* ((current_val - peak_val) / peak_val * 100) if peak_val else 0
DrawdownPct(current_val, peak_val) ==
    IF peak_val # 0 THEN PctChange(current_val, peak_val) ELSE 0

\* drawdown_pct < -10, on the unrounded value
DrawdownBelowThreshold(current_val, peak_val) ==
    peak_val # 0 /\ RatLess((current_val - peak_val) * 100, peak_val, -10, 1)

\* the closed branch: no figure is computed for the ticker
NoFigures(ticker) ==
    [ticker |-> ticker, closed |-> TRUE,
     weight_pct |-> 0, overall_pct |-> None, pct_7d |-> None, pct_30d |-> None,
     peak_val |-> 0, peak_date |-> "", drawdown_pct |-> 0, flag |-> "none"]

\* one pass of the per-ticker loop: the locals behind one summary line
TickerStats(e, latest_date, earliest_date, date_7d, date_30d, total_latest) ==
    LET vals        == e.vals
        current_val == DictGet(vals, latest_date)
        first_val   == DictGet(vals, earliest_date)
    IN  IF current_val = None
        THEN NoFigures(e.ticker)
        ELSE LET cur     == Val(current_val)
                 val_7d  == IF date_7d # None THEN DictGet(vals, Val(date_7d)) ELSE None
                 val_30d == IF date_30d # None THEN DictGet(vals, Val(date_30d)) ELSE None
                 peak    == PeakVal(vals)
                 pdate   == PeakDate(vals)
             IN  [ticker       |-> e.ticker,
                  closed       |-> FALSE,
                  weight_pct   |-> WeightPct(cur, total_latest),
                  overall_pct  |-> ChangePct(cur, first_val),
                  pct_7d       |-> ChangePct(cur, val_7d),
                  pct_30d      |-> ChangePct(cur, val_30d),
                  peak_val     |-> peak,
                  peak_date    |-> pdate,
                  drawdown_pct |-> DrawdownPct(cur, peak),
                  flag         |-> IF DrawdownBelowThreshold(cur, peak) THEN "drawdown"
                                   ELSE IF pdate = latest_date THEN "ath"
                                   ELSE "none"]

\* the text of one summary line: what of the locals is printed
SummaryLine(s) ==
    IF s.closed
    THEN [ticker |-> s.ticker, text |-> <<"CLOSED/SOLD (not in latest snapshot)">>]
    ELSE [ticker |-> s.ticker,
          text |-> <<"weight", s.weight_pct, "overall", s.overall_pct,
                     "7d", s.pct_7d, "30d", s.pct_30d,
                     IF s.flag = "drawdown"
                     THEN <<"from peak", s.drawdown_pct, s.peak_date>>
                     ELSE IF s.flag = "ath" THEN <<"At all-time high">>
                     ELSE <<>> >>]

\* the movers loop: tickers with a truthy first_val and a truthy current_val
Movers(th, latest_date, earliest_date) ==
    LET ok(e) == LET f == DictGet(e.vals, earliest_date)
                     c == DictGet(e.vals, latest_date)
                 IN  f # None /\ c # None /\ Val(f) # 0 /\ Val(c) # 0
        keep  == SelectSeq(th, ok)
    IN  [i \in DOMAIN keep |->
            LET f == Val(DictGet(keep[i].vals, earliest_date))
                c == Val(DictGet(keep[i].vals, latest_date))
            IN  [ticker |-> keep[i].ticker, num |-> c - f, den |-> f,
                 pct |-> PctChange(c, f)]]

\* movers.sort(key=lambda x: x[1], reverse=True): stable, descending
RECURSIVE SortMovers(_)
SortMovers(m) ==
    IF m = <<>> THEN <<>>
    ELSE LET prev == SortMovers(SubSeq(m, 1, Len(m) - 1))
             x    == m[Len(m)]
             \* x goes before the first element that is strictly smaller
             lower == {i \in DOMAIN prev :
                         RatLess(prev[i].num, prev[i].den, x.num, x.den)}
             at   == IF lower = {} THEN Len(prev) + 1
                     ELSE CHOOSE i \in lower : \A j \in lower : i <= j
         IN  SubSeq(prev, 1, at - 1) \o <<x>> \o SubSeq(prev, at, Len(prev))

\* the locals of a call that returned "" before computing anything
NoCalc(exit) ==
    [exit |-> exit, ticker_history |-> <<>>, sorted_dates |-> <<>>,
     latest_date |-> "", earliest_date |-> "", date_7d |-> None, date_30d |-> None,
     total_latest |-> 0, latest_tickers |-> <<>>, stats |-> <<>>, movers |-> <<>>]

\* a variant of Worksheet that falls back to the first sheet (sh.sheet1)
WorksheetOrFirstSheet(sh, rws) == Some(rws)

\* sh.worksheet(PORTFOLIO_HISTORY_TAB): the tab's rows, or None when the
\* lookup raises and the function returns ""
Worksheet(sh, rws) == IF sh = "tab_missing" THEN None ELSE Some(rws)

\* the part of get_portfolio_history after the rows are parsed
Aggregate(th, portfolio) ==
    LET sorted_dates   == SortedBy(AllDates(th), DateLexRank)
        latest_date    == sorted_dates[Len(sorted_dates)]
        earliest_date  == sorted_dates[1]
        latest_dt      == ParseDate(latest_date)
        date_7d        == find_closest_date(latest_dt, 7, sorted_dates)
        date_30d       == find_closest_date(latest_dt, 30, sorted_dates)
        total_latest   == TotalLatest(th, latest_date)
        latest_tickers == LatestTickers(th, latest_date)
        by_name        == SortedBy({th[i].ticker : i \in DOMAIN th}, TickerRank)
        entry(t)       == th[CHOOSE i \in DOMAIN th : th[i].ticker = t]
        stats          == [i \in DOMAIN by_name |->
                             TickerStats(entry(by_name[i]), latest_date, earliest_date,
                                         date_7d, date_30d, total_latest)]
        movers         == SortMovers(Movers(th, latest_date, earliest_date))
        performers     == IF movers = <<>> THEN <<>>
                          ELSE <<"Top Performer", movers[1].ticker, movers[1].pct,
                                 "Worst Performer", movers[Len(movers)].ticker,
                                 movers[Len(movers)].pct>>
    IN  [text |-> <<[as_of |-> latest_date, from |-> earliest_date,
                     snapshots |-> Len(sorted_dates),
                     lines |-> [i \in DOMAIN stats |-> SummaryLine(stats[i])],
                     performers |-> performers]>>,
         portfolio |-> IF latest_tickers # <<>> THEN latest_tickers ELSE portfolio,
         calc |-> [exit |-> "ok", ticker_history |-> th, sorted_dates |-> sorted_dates,
                   latest_date |-> latest_date, earliest_date |-> earliest_date,
                   date_7d |-> date_7d, date_30d |-> date_30d,
                   total_latest |-> total_latest, latest_tickers |-> latest_tickers,
                   stats |-> stats, movers |-> movers]]

\* get_portfolio_history(gc): the returned text, the new USER_PORTFOLIO and
\* the locals, for a spreadsheet in state sh whose sheet holds rws
get_portfolio_history(sh, rws, portfolio) ==
    LET quit(exit) == [text |-> <<>>, portfolio |-> portfolio, calc |-> NoCalc(exit)]
    IN  IF sh = "open_raises" THEN quit("open_failed")
        ELSE IF Worksheet(sh, rws) = None THEN quit("tab_missing")
        ELSE IF sh = "records_raise" THEN quit("read_failed")
        ELSE LET records == Val(Worksheet(sh, rws))
             IN  IF records = <<>> THEN quit("no_rows")
                 ELSE LET th == BuildTickerHistory(records)
                      IN  IF th = <<>> THEN quit("no_valid")
                          ELSE Aggregate(th, portfolio)

---------------------------------------------------------------------------
(* fetch_rss_feed, is_article_fresh, get_news *)

\* the feeds of GOOGLE_NEWS_FEEDS the model runs, in the dict's order
Categories == <<"World", "Business">>

ItemsPerFeed == 8      \* items[:8]
MaxAgeHours == 24      \* max_age_hours=24
ArticlesInPrompt == 25 \* articles[:25]
Now == 48              \* datetime.now(timezone.utc), in hours

\* str.lower() on the characters of the model
LowerChar(c) == CASE c = "F" -> "f" [] c = "G" -> "g" [] OTHER -> c
Lower(str) == [i \in DOMAIN str |-> LowerChar(str[i])]

\* str.strip(): leading and trailing whitespace removed
RECURSIVE Strip(_)
Strip(str) ==
    IF str = <<>> THEN <<>>
    ELSE IF Head(str) = " " THEN Strip(Tail(str))
    ELSE IF str[Len(str)] = " " THEN Strip(SubSeq(str, 1, Len(str) - 1))
    ELSE str

\* pub_date_elem.text.strip() if pub_date_elem else ''
NoPubDate == [kind |-> "absent", hour |-> 0]

\* parsedate_to_datetime(pub_date_str): raises on text that is no RFC 2822
\* date; a date with a zone gives an aware datetime; a date with zone -0000
\* or with no zone gives a naive one
parsedate_to_datetime(str) ==
    CASE str.kind = "aware" -> [raised |-> FALSE, aware |-> TRUE, hour |-> str.hour]
      [] str.kind = "naive" -> [raised |-> FALSE, aware |-> FALSE, hour |-> str.hour]
      [] OTHER              -> [raised |-> TRUE, aware |-> FALSE, hour |-> 0]

\* pub_date >= cutoff: comparing a naive with an aware datetime raises
\* TypeError, which the except branch turns into True
CompareToCutoff(pub_date, cutoff) ==
    IF pub_date.aware THEN pub_date.hour >= cutoff ELSE TRUE

is_article_fresh(str, max_age_hours, now) ==
    IF str.kind = "absent" THEN TRUE
    ELSE LET pub_date == parsedate_to_datetime(str)
         IN  IF pub_date.raised THEN TRUE
             ELSE CompareToCutoff(pub_date, now - max_age_hours)

\* fetch_rss_feed(url, category): [] when the request or the parse fails;
\* else the first 8 items that have a title and a link, fields stripped
fetch_rss_feed(feed, category) ==
    IF ~feed.ok THEN <<>>
    ELSE LET items == SubSeq(feed.items, 1,
                             IF Len(feed.items) < ItemsPerFeed
                             THEN Len(feed.items) ELSE ItemsPerFeed)
             idx   == SelectSeq([i \in DOMAIN items |-> i],
                                LAMBDA i : items[i].has_title /\ items[i].has_link)
         IN  [k \in DOMAIN idx |->
                [title     |-> Strip(items[idx[k]].title),
                 url       |-> <<category, idx[k]>>,
                 published |-> items[idx[k]].pubDate,
                 category  |-> category]]

\* the loop over GOOGLE_NEWS_FEEDS: all_articles.extend(articles)
RECURSIVE FetchAll(_, _)
FetchAll(fds, n) ==
    IF n = 0 THEN <<>>
    ELSE FetchAll(fds, n - 1) \o fetch_rss_feed(fds[n], Categories[n])

\* a variant of TitleKey that forgets lower()
TitleKeyCaseSensitive(article) == Strip(article.title)

\* article.get('title', '').lower().strip()
TitleKey(article) == Strip(Lower(article.title))

\* the de-duplication loop: an article is kept when its key is not empty
\* and not yet in seen_titles
RECURSIVE Deduplicate(_)
Deduplicate(arts) ==
    IF arts = <<>> THEN <<>>
    ELSE LET prev == Deduplicate(SubSeq(arts, 1, Len(arts) - 1))
             a    == arts[Len(arts)]
             seen_titles == {TitleKey(prev[i]) : i \in DOMAIN prev}
         IN  IF TitleKey(a) # <<>> /\ TitleKey(a) \notin seen_titles
             THEN Append(prev, a) ELSE prev

\* [a for a in all_articles if is_article_fresh(a.get('published', ''))]
FreshFilter(arts, now) ==
    SelectSeq(arts, LAMBDA a : is_article_fresh(a.published, MaxAgeHours, now))

get_news(fds, now) ==
    LET every == FetchAll(fds, Len(Categories))
        recent == FreshFilter(every, now)
    IN  [all_articles |-> every, fresh_articles |-> recent,
         unique_articles |-> Deduplicate(recent)]

---------------------------------------------------------------------------
(* The sheets of the model *)

Tickers == {"AAPL", "MSFT"}
Dates == {"2024-01-01", "2024-01-08"}
Values == {0, 2, 4}
SheetStates == {"ok", "open_raises", "tab_missing", "records_raise"}

HistoryRows == [date : Dates, ticker : Tickers, value : {Num(v) : v \in Values}]

SeqsUpTo(S, n) == UNION {[1..k -> S] : k \in 0..n}

\* the state no call has touched
Idle ==
    /\ sheet = "ok" /\ rows = <<>>
    /\ USER_PORTFOLIO = <<>> /\ portfolio_history = <<>> /\ calc = NoCalc("not_called")
    /\ feeds = <<>> /\ all_articles = <<>> /\ fresh_articles = <<>>
    /\ unique_articles = <<>>
    /\ pub_date_str = <<>> /\ fresh = FALSE
    /\ credentials = "absent" /\ gc = FALSE /\ news_text = <<>>
    /\ newsletter = <<>> /\ archive = <<>> /\ mail = "none" /\ trace = <<>>

(* SpecHistory: one call of get_portfolio_history on a sheet of at most     *)
(* MaxRows parsable rows, the spreadsheet service in any of its states.    *)
InitHistory ==
    /\ pc = "history"
    /\ rows \in SeqsUpTo(HistoryRows, MaxRows)
    /\ sheet = "ok" /\ USER_PORTFOLIO = <<>> /\ portfolio_history = <<>>
    /\ calc = NoCalc("not_called")
    /\ feeds = <<>> /\ all_articles = <<>> /\ fresh_articles = <<>>
    /\ unique_articles = <<>>
    /\ pub_date_str = <<>> /\ fresh = FALSE
    /\ credentials = "valid" /\ gc = TRUE /\ news_text = <<>>
    /\ newsletter = <<>> /\ archive = <<>> /\ mail = "none" /\ trace = <<>>

CallHistory ==
    /\ pc = "history"
    /\ \E sh \in SheetStates :
         LET r == get_portfolio_history(sh, rows, USER_PORTFOLIO)
         IN  /\ sheet' = sh
             /\ portfolio_history' = r.text
             /\ USER_PORTFOLIO' = r.portfolio
             /\ calc' = r.calc
    /\ pc' = "returned"
    /\ UNCHANGED <<rows, feeds, all_articles, fresh_articles, unique_articles,
                   pub_date_str, fresh, credentials, gc, news_text, newsletter,
                   archive, mail, trace>>

NextHistory == CallHistory

SpecHistory == InitHistory /\ [][NextHistory]_vars

(* SpecTable: one call of get_portfolio_history on a sheet laid out as a    *)
(* table, one row per (ticker, date) cell that holds a value.               *)
Cells ==
    <<[ticker |-> "AAPL", date |-> "2024-01-01"], [ticker |-> "AAPL", date |-> "2024-01-08"],
      [ticker |-> "MSFT", date |-> "2024-01-01"], [ticker |-> "MSFT", date |-> "2024-01-08"]>>

TableRows(c) ==
    LET filled == SelectSeq([i \in DOMAIN Cells |-> i], LAMBDA i : c[i] # None)
    IN  [k \in DOMAIN filled |->
            [date |-> Cells[filled[k]].date, ticker |-> Cells[filled[k]].ticker,
             value |-> Num(Val(c[filled[k]]))]]

InitTable ==
    /\ pc = "history"
    /\ \E c \in [DOMAIN Cells -> {None} \cup {Some(v) : v \in Values}] :
         rows = TableRows(c)
    /\ sheet = "ok" /\ USER_PORTFOLIO = <<>> /\ portfolio_history = <<>>
    /\ calc = NoCalc("not_called")
    /\ feeds = <<>> /\ all_articles = <<>> /\ fresh_articles = <<>>
    /\ unique_articles = <<>>
    /\ pub_date_str = <<>> /\ fresh = FALSE
    /\ credentials = "valid" /\ gc = TRUE /\ news_text = <<>>
    /\ newsletter = <<>> /\ archive = <<>> /\ mail = "none" /\ trace = <<>>

SpecTable == InitTable /\ [][NextHistory]_vars

(* SpecClosest: one call of get_portfolio_history on a sheet that holds    *)
(* one ticker at up to MaxDates dates, written as ISO dates, as             *)
(* day/month/year dates or as text that is no date.                         *)
DateStrings == DOMAIN DateLexRank

DatedRows(S) ==
    LET ds == SortedBy(S, DateLexRank)
    IN  [i \in DOMAIN ds |-> [date |-> ds[i], ticker |-> "AAPL", value |-> Num(2)]]

InitClosest ==
    /\ pc = "history"
    /\ \E S \in SUBSET DateStrings :
         /\ Cardinality(S) \in 1..MaxDates
         /\ rows = DatedRows(S)
    /\ sheet = "ok" /\ USER_PORTFOLIO = <<>> /\ portfolio_history = <<>>
    /\ calc = NoCalc("not_called")
    /\ feeds = <<>> /\ all_articles = <<>> /\ fresh_articles = <<>>
    /\ unique_articles = <<>>
    /\ pub_date_str = <<>> /\ fresh = FALSE
    /\ credentials = "valid" /\ gc = TRUE /\ news_text = <<>>
    /\ newsletter = <<>> /\ archive = <<>> /\ mail = "none" /\ trace = <<>>

SpecClosest == InitClosest /\ [][NextHistory]_vars

---------------------------------------------------------------------------
(* The feeds of the model *)

InWindow == [kind |-> "aware", hour |-> Now]
TooOld == [kind |-> "aware", hour |-> Now - MaxAgeHours - 1]

Item(title, pubDate, has_link) ==
    [has_title |-> TRUE, title |-> title, has_link |-> has_link, pubDate |-> pubDate]

FeedItems ==
    {Item(<<"F">>, InWindow, TRUE), Item(<<" ", "f">>, InWindow, TRUE),
     Item(<<"F">>, TooOld, TRUE), Item(<<"G">>, InWindow, TRUE),
     Item(<<" ">>, InWindow, TRUE), Item(<<"G">>, InWindow, FALSE)}

\* what one feed URL serves: an error, or at most n items
FeedContents(n) ==
    {[ok |-> FALSE, items |-> <<>>]} \cup
    {[ok |-> TRUE, items |-> s] : s \in SeqsUpTo(FeedItems, n)}

(* SpecNews: one call of get_news, each feed failing or serving at most     *)
(* MaxItems items.                                                          *)
InitNews ==
    /\ pc = "get_news"
    /\ feeds \in [DOMAIN Categories -> FeedContents(MaxItems)]
    /\ sheet = "ok" /\ rows = <<>>
    /\ USER_PORTFOLIO = <<>> /\ portfolio_history = <<>> /\ calc = NoCalc("not_called")
    /\ all_articles = <<>> /\ fresh_articles = <<>> /\ unique_articles = <<>>
    /\ pub_date_str = <<>> /\ fresh = FALSE
    /\ credentials = "absent" /\ gc = FALSE /\ news_text = <<>>
    /\ newsletter = <<>> /\ archive = <<>> /\ mail = "none" /\ trace = <<>>

CallGetNews ==
    /\ pc = "get_news"
    /\ LET r == get_news(feeds, Now)
       IN  /\ all_articles' = r.all_articles
           /\ fresh_articles' = r.fresh_articles
           /\ unique_articles' = r.unique_articles
    /\ pc' = "news_returned"
    /\ UNCHANGED <<sheet, rows, USER_PORTFOLIO, portfolio_history, calc, feeds,
                   pub_date_str, fresh, credentials, gc, news_text, newsletter,
                   archive, mail, trace>>

NextNews == CallGetNews

SpecNews == InitNews /\ [][NextNews]_vars

(* SpecFresh: one call of is_article_fresh(pub_date_str) at time Now.       *)
PubDates ==
    {NoPubDate, [kind |-> "garbage", hour |-> 0]} \cup
    [kind : {"aware", "naive"}, hour : 0..MaxHour]

InitFresh ==
    /\ pc = "is_article_fresh"
    /\ pub_date_str \in PubDates
    /\ fresh = FALSE
    /\ sheet = "ok" /\ rows = <<>>
    /\ USER_PORTFOLIO = <<>> /\ portfolio_history = <<>> /\ calc = NoCalc("not_called")
    /\ feeds = <<>> /\ all_articles = <<>> /\ fresh_articles = <<>>
    /\ unique_articles = <<>>
    /\ credentials = "absent" /\ gc = FALSE /\ news_text = <<>>
    /\ newsletter = <<>> /\ archive = <<>> /\ mail = "none" /\ trace = <<>>

CallIsArticleFresh ==
    /\ pc = "is_article_fresh"
    /\ fresh' = is_article_fresh(pub_date_str, MaxAgeHours, Now)
    /\ pc' = "fresh_returned"
    /\ UNCHANGED <<sheet, rows, USER_PORTFOLIO, portfolio_history, calc, feeds,
                   all_articles, fresh_articles, unique_articles, pub_date_str,
                   credentials, gc, news_text, newsletter, archive, mail, trace>>

NextFresh == CallIsArticleFresh

SpecFresh == InitFresh /\ [][NextFresh]_vars

---------------------------------------------------------------------------
(* main *)

\* the list main() falls back to
FallbackPortfolio == <<"Portfolio not configured - general market analysis only">>

\* str.startswith("ERROR") on the ticker strings of the model
StartsWithError(t) == t = "ERROR1"

\* a variant of NeedsFallback that forgets the empty list
NeedsFallbackOnErrorOnly(portfolio) ==
    portfolio # <<>> /\ StartsWithError(portfolio[1])

\* not USER_PORTFOLIO or USER_PORTFOLIO[0].startswith("ERROR")
NeedsFallback(portfolio) == portfolio = <<>> \/ StartsWithError(portfolio[1])

\* a variant of HaltsEarly that never returns early
HaltsEarlyNever(articles) == FALSE

\* not articles: the run returns before step 2
HaltsEarly(articles) == articles = <<>>

\* authenticate_gsheet(): None when the credential file is absent or the
\* authorisation raises, the client otherwise
authenticate_gsheet(creds) == creds = "valid"

\* prepare_news_text(articles): the first 25 articles, title, category, url
prepare_news_text(articles) ==
    IF articles = <<>> THEN <<"No news articles found.">>
    ELSE LET n == IF Len(articles) < ArticlesInPrompt
                  THEN Len(articles) ELSE ArticlesInPrompt
         IN  [i \in 1..n |-> [title |-> articles[i].title,
                              category |-> articles[i].category,
                              url |-> articles[i].url]]

\* summarize_with_gemini(news_text, portfolio_history) for each state of the
\* generation service: the returned text
summarize_with_gemini(text, history, portfolio, service) ==
    CASE service = "no_api_key"   -> <<"Error: No Gemini API key">>
      [] service = "no_prompt"    -> <<"Error: Prompt file not found">>
      [] service = "call_raises"  -> <<"Error creating newsletter">>
      [] OTHER ->
           <<"response.text",
             [news_text |-> text, portfolio_string |-> portfolio,
              portfolio_history |-> IF history # <<>> THEN history
                                    ELSE <<"No historical data available.">>]>>

GenerationStates == {"no_api_key", "no_prompt", "call_raises", "ok"}

\* the sheets and feeds of a run of main
SheetRows ==
    [date : {"2024-01-08", ""}, ticker : {"AAPL", "ERROR1"}, value : {Num(2), Bad}]

(* Spec: one run of main().  The credential file, the spreadsheet, the      *)
(* feeds, the generation service and the mail relay are each in any of      *)
(* their states; the archive directory is writable and the prompt template  *)
(* well formed.                                                             *)
Init ==
    /\ pc = "main"
    /\ credentials \in {"absent", "invalid", "valid"}
    /\ sheet = "ok" /\ rows = <<>>
    /\ USER_PORTFOLIO = <<>> /\ portfolio_history = <<>> /\ calc = NoCalc("not_called")
    /\ feeds = <<>> /\ all_articles = <<>> /\ fresh_articles = <<>>
    /\ unique_articles = <<>>
    /\ pub_date_str = <<>> /\ fresh = FALSE
    /\ gc = FALSE /\ news_text = <<>>
    /\ newsletter = <<>> /\ archive = <<>> /\ mail = "none" /\ trace = <<>>

\* gc = authenticate_gsheet()
Authenticate ==
    /\ pc = "main"
    /\ gc' = authenticate_gsheet(credentials)
    /\ trace' = Append(trace, "authenticate_gsheet")
    /\ pc' = "portfolio"
    /\ UNCHANGED <<sheet, rows, USER_PORTFOLIO, portfolio_history, calc, feeds,
                   all_articles, fresh_articles, unique_articles, pub_date_str,
                   fresh, credentials, news_text, newsletter, archive, mail>>

\* if gc: portfolio_history = get_portfolio_history(gc)
ReadHistory ==
    /\ pc = "portfolio" /\ gc
    /\ \E sh \in SheetStates, rws \in SeqsUpTo(SheetRows, MaxSheetRows) :
         LET r == get_portfolio_history(sh, rws, USER_PORTFOLIO)
         IN  /\ portfolio_history' = r.text
             /\ USER_PORTFOLIO' = r.portfolio
             /\ calc' = r.calc
    /\ trace' = Append(trace, "get_portfolio_history")
    /\ pc' = "fallback"
    /\ UNCHANGED <<sheet, rows, feeds, all_articles, fresh_articles,
                   unique_articles, pub_date_str, fresh, credentials, gc,
                   news_text, newsletter, archive, mail>>

\* gc is None: portfolio_history stays ""
SkipHistory ==
    /\ pc = "portfolio" /\ ~gc
    /\ pc' = "fallback"
    /\ UNCHANGED <<sheet, rows, USER_PORTFOLIO, portfolio_history, calc, feeds,
                   all_articles, fresh_articles, unique_articles, pub_date_str,
                   fresh, credentials, gc, news_text, newsletter, archive, mail,
                   trace>>

\* if not USER_PORTFOLIO or ...: USER_PORTFOLIO[:] = [placeholder]
PortfolioFallback ==
    /\ pc = "fallback"
    /\ USER_PORTFOLIO' = IF NeedsFallback(USER_PORTFOLIO) THEN FallbackPortfolio
                         ELSE USER_PORTFOLIO
    /\ pc' = "news"
    /\ UNCHANGED <<sheet, rows, portfolio_history, calc, feeds, all_articles,
                   fresh_articles, unique_articles, pub_date_str, fresh,
                   credentials, gc, news_text, newsletter, archive, mail, trace>>

\* articles = get_news(); if not articles: return
GetNews ==
    /\ pc = "news"
    /\ \E fds \in [DOMAIN Categories -> FeedContents(MaxMainItems)] :
         /\ unique_articles' = get_news(fds, Now).unique_articles
         /\ pc' = IF HaltsEarly(get_news(fds, Now).unique_articles)
                  THEN "halted" ELSE "prepare"
    /\ trace' = Append(trace, "get_news")
    /\ UNCHANGED <<sheet, rows, USER_PORTFOLIO, portfolio_history, calc, feeds,
                   all_articles, fresh_articles, pub_date_str, fresh, credentials,
                   gc, news_text, newsletter, archive, mail>>

\* news_text = prepare_news_text(articles)
PrepareNews ==
    /\ pc = "prepare"
    /\ news_text' = prepare_news_text(unique_articles)
    /\ trace' = Append(trace, "prepare_news_text")
    /\ pc' = "summarize"
    /\ UNCHANGED <<sheet, rows, USER_PORTFOLIO, portfolio_history, calc, feeds,
                   all_articles, fresh_articles, unique_articles, pub_date_str,
                   fresh, credentials, gc, newsletter, archive, mail>>

\* newsletter = summarize_with_gemini(news_text, portfolio_history)
Summarize ==
    /\ pc = "summarize"
    /\ \E service \in GenerationStates :
         newsletter' = summarize_with_gemini(news_text, portfolio_history,
                                             USER_PORTFOLIO, service)
    /\ trace' = Append(trace, "summarize_with_gemini")
    /\ pc' = "save"
    /\ UNCHANGED <<sheet, rows, USER_PORTFOLIO, portfolio_history, calc, feeds,
                   all_articles, fresh_articles, unique_articles, pub_date_str,
                   fresh, credentials, gc, news_text, archive, mail>>

\* filename = save_newsletter(newsletter)
SaveNewsletter ==
    /\ pc = "save"
    /\ archive' = <<"# Financial Newsletter">> \o newsletter
    /\ trace' = Append(trace, "save_newsletter")
    /\ pc' = "send"
    /\ UNCHANGED <<sheet, rows, USER_PORTFOLIO, portfolio_history, calc, feeds,
                   all_articles, fresh_articles, unique_articles, pub_date_str,
                   fresh, credentials, gc, news_text, newsletter, mail>>

\* send_email(newsletter): True, or False when anything in it raises
SendEmail ==
    /\ pc = "send"
    /\ \E relay_ok \in BOOLEAN : mail' = IF relay_ok THEN "sent" ELSE "failed"
    /\ trace' = Append(trace, "send_email")
    /\ pc' = "done"
    /\ UNCHANGED <<sheet, rows, USER_PORTFOLIO, portfolio_history, calc, feeds,
                   all_articles, fresh_articles, unique_articles, pub_date_str,
                   fresh, credentials, gc, news_text, newsletter, archive>>

Next ==
    \/ Authenticate
    \/ ReadHistory
    \/ SkipHistory
    \/ PortfolioFallback
    \/ GetNews
    \/ PrepareNews
    \/ Summarize
    \/ SaveNewsletter
    \/ SendEmail

Spec == Init /\ [][Next]_vars

---------------------------------------------------------------------------
(* Properties of get_portfolio_history *)

Returned == pc = "returned" /\ calc.exit = "ok"

\* the summary-line locals of the tickers present at the latest date
Present == {i \in DOMAIN calc.stats : ~calc.stats[i].closed}

\* the entry of ticker t in the per-ticker map of the call
EntryOf(t) ==
    calc.ticker_history[CHOOSE i \in DOMAIN calc.ticker_history :
                           calc.ticker_history[i].ticker = t]

\* the sum of the printed weights is 100.0 up to one rounding step per ticker
WeightsAddUp ==
    2 * Abs(SumSeq([i \in DOMAIN calc.stats |-> calc.stats[i].weight_pct]) - 1000)
        <= Cardinality(Present)

\* C2 as stated: for every accepted history the weights of the tickers
\* present at the latest date sum to 100% within rounding.
C2_WeightsSumTo100 == Returned => WeightsAddUp

\* C2 amended: the weights sum to 100% within rounding whenever the
\* latest-date total is not zero; when it is zero every weight is 0.
C2_WeightsSumTo100_NonZeroTotal ==
    Returned =>
        IF calc.total_latest # 0 THEN WeightsAddUp
        ELSE \A i \in Present : calc.stats[i].weight_pct = 0

\* two tickers at the latest date whose weights are rounded (33.3% + 66.7%)
C2_Witness ==
    /\ Returned /\ calc.total_latest # 0
    /\ \E i, j \in Present : /\ calc.stats[i].weight_pct = 333
                             /\ calc.stats[j].weight_pct = 667

\* C3: the drawdown of every ticker present at the latest date is <= 0, and
\* a ticker whose latest value is the maximum of its observed values has a
\* drawdown of 0 and the 'At all-time high' flag.
C3_DrawdownAndAllTimeHigh ==
    Returned =>
        \A i \in Present :
            LET s    == calc.stats[i]
                vals == EntryOf(s.ticker).vals
                cur  == Val(DictGet(vals, calc.latest_date))
            IN  /\ s.drawdown_pct <= 0
                /\ (\A j \in DOMAIN vals : vals[j].value <= cur)
                      => s.drawdown_pct = 0 /\ s.flag = "ath"

\* C4 as stated: with the configured tab missing, the rows of the first
\* sheet are aggregated and a history is returned.
C4_MissingTabFallsBack ==
    (pc = "returned" /\ sheet = "tab_missing" /\ rows # <<>>) =>
        /\ portfolio_history # <<>>
        /\ portfolio_history = Aggregate(BuildTickerHistory(rows), <<>>).text

\* C4 amended: with the configured tab missing, get_portfolio_history
\* returns the empty text, reads no row and leaves USER_PORTFOLIO as it was.
C4_MissingTabSkipsHistory ==
    (pc = "returned" /\ sheet = "tab_missing") =>
        /\ portfolio_history = <<>>
        /\ calc = NoCalc("tab_missing")
        /\ USER_PORTFOLIO = <<>>

C4_Witness == pc = "returned" /\ sheet = "tab_missing" /\ Len(rows) >= 2

\* no two rows of the sheet share a (ticker, date) pair
NoDuplicateRows(rws) ==
    \A i, j \in DOMAIN rws :
        (rws[i].ticker = rws[j].ticker /\ rws[i].date = rws[j].date) => i = j

Range(s) == {s[i] : i \in DOMAIN s}

\* C5: for a sheet without duplicate (ticker, date) rows, every permutation
\* of the rows gives the same text and the same set of current tickers.
C5_RowOrderIndependent ==
    (Returned /\ sheet = "ok" /\ NoDuplicateRows(rows)) =>
        \A p \in Permutations(DOMAIN rows) :
            LET r == get_portfolio_history("ok", [i \in DOMAIN rows |-> rows[p[i]]], <<>>)
            IN  /\ r.text = portfolio_history
                /\ Range(r.portfolio) = Range(USER_PORTFOLIO)

\* the value of the last row of rws at (t, d), if any
LastAt(rws, t, d) ==
    LET idx == {i \in DOMAIN rws : rws[i].ticker = t /\ rws[i].date = d}
    IN  IF idx = {} THEN None
        ELSE Some(rws[CHOOSE i \in idx : \A j \in idx : j <= i].value.num)

\* a ticker with a value at the earliest date and none at the latest date
ClosedTickers ==
    {t \in Tickers : /\ LastAt(rows, t, calc.earliest_date) # None
                     /\ LastAt(rows, t, calc.latest_date) = None}

\* C6: a ticker with a value at the earliest date and none at the latest is
\* reported on one line as closed, adds nothing to the latest-date total,
\* gets no figures and is not in USER_PORTFOLIO.
C6_ClosedTickerExcluded ==
    Returned =>
        /\ \A t \in ClosedTickers :
            /\ Cardinality({i \in DOMAIN calc.stats : calc.stats[i].ticker = t}) = 1
            /\ \A i \in DOMAIN calc.stats :
                 calc.stats[i].ticker = t =>
                    /\ calc.stats[i] = NoFigures(t)
                    /\ portfolio_history[1].lines[i] =
                         [ticker |-> t, text |-> <<"CLOSED/SOLD (not in latest snapshot)">>]
            /\ t \notin Range(USER_PORTFOLIO)
        /\ calc.total_latest =
             SumSeq([i \in DOMAIN calc.stats |->
                       LET v == LastAt(rows, calc.stats[i].ticker, calc.latest_date)
                       IN  IF calc.stats[i].ticker \in ClosedTickers \/ v = None
                           THEN 0 ELSE Val(v)])

\* a closed ticker beside a ticker that is still held, with a non-zero total
C6_Witness ==
    /\ Returned /\ ClosedTickers # {} /\ calc.total_latest # 0
    /\ \E t \in ClosedTickers : LastAt(rows, t, calc.earliest_date) # Some(0)

\* the tickers for which the summary loop computes an overall%
WithOverall == {i \in Present : calc.stats[i].overall_pct # None}

\* C10: the Top Performer reported has the maximum and the Worst Performer
\* the minimum overall% among all tickers for which an overall% is computed,
\* a ticker whose latest value is 0 included.
C10_PerformersAreExtremes ==
    (Returned /\ portfolio_history[1].performers # <<>>) =>
        LET perf   == portfolio_history[1].performers
            pct(t) == Val(calc.stats[CHOOSE i \in WithOverall :
                                        calc.stats[i].ticker = t].overall_pct)
            named  == {calc.stats[i].ticker : i \in WithOverall}
        IN  /\ perf[2] \in named /\ perf[5] \in named
            /\ \A t \in named : pct(t) <= pct(perf[2]) /\ pct(perf[5]) <= pct(t)

---------------------------------------------------------------------------
(* Properties of the feed reader *)

\* a title lower-cased and trimmed
Normalized(title) == Strip(Lower(title))

\* C8: get_news returns at most one article per normalized title, the one
\* kept is the first fresh article of that title in feed order, and the
\* title of every fresh article with a non-empty title is represented.
C8_OneArticlePerTitle ==
    pc = "news_returned" =>
        /\ \A i, j \in DOMAIN unique_articles :
              Normalized(unique_articles[i].title) = Normalized(unique_articles[j].title)
                 => i = j
        /\ \A i \in DOMAIN unique_articles :
              \E k \in DOMAIN fresh_articles :
                 /\ fresh_articles[k] = unique_articles[i]
                 /\ \A m \in 1..(k - 1) :
                       Normalized(fresh_articles[m].title)
                          # Normalized(unique_articles[i].title)
        /\ \A k \in DOMAIN fresh_articles :
              fresh_articles[k].title # <<>> =>
                 \E i \in DOMAIN unique_articles :
                    Normalized(unique_articles[i].title)
                       = Normalized(fresh_articles[k].title)

\* one story in both feeds under titles that differ in case, the copy of
\* the first feed too old: the copy of the second feed is the one kept
C8_Witness ==
    /\ pc = "news_returned"
    /\ \E a, b \in DOMAIN all_articles :
          /\ all_articles[a].category = "World" /\ all_articles[a].title = <<"F">>
          /\ all_articles[a] \notin Range(fresh_articles)
          /\ all_articles[b].category = "Business" /\ all_articles[b].title = <<"f">>
          /\ all_articles[b] \in Range(unique_articles)
    /\ Len(fresh_articles) > Len(unique_articles)

\* C9: is_article_fresh rejects a timestamp that parses and is older than
\* the window, accepts one that parses and is within the window, and
\* accepts an absent or unparsable one.
C9_FreshnessFilter ==
    pc = "fresh_returned" =>
        LET parses == pub_date_str.kind \in {"aware", "naive"}
            old    == pub_date_str.hour < Now - MaxAgeHours
        IN  /\ (parses /\ old) => ~fresh
            /\ (parses /\ ~old) => fresh
            /\ ~parses => fresh

---------------------------------------------------------------------------
(* Properties of main *)

AfterNews == {"prepare", "summarize", "save", "send", "done"}

LastSteps == <<"summarize_with_gemini", "save_newsletter", "send_email">>

\* C1: the run returns before the generation call exactly when get_news
\* returned no article; otherwise, whatever failed, it goes on through the
\* generation step, the archive write and the mail attempt, in this order,
\* and with no article none of the three happens.
C1_HaltsOnlyWithoutArticles ==
    /\ pc = "halted" =>
          /\ unique_articles = <<>>
          /\ \A i \in DOMAIN LastSteps : LastSteps[i] \notin Range(trace)
          /\ newsletter = <<>> /\ archive = <<>> /\ mail = "none"
    /\ pc \in AfterNews => unique_articles # <<>>
    /\ pc = "done" =>
          /\ Len(trace) >= 3
          /\ SubSeq(trace, Len(trace) - 2, Len(trace)) = LastSteps
          /\ \A i \in DOMAIN LastSteps :
                Cardinality({k \in DOMAIN trace : trace[k] = LastSteps[i]}) = 1
          /\ archive = <<"# Financial Newsletter">> \o newsletter
          /\ mail \in {"sent", "failed"}
    /\ pc \notin {"halted", "done"} => ENABLED Next

\* a run that went through to the mail attempt although the history read,
\* the generation call and the mail submission all failed
C1_Witness ==
    /\ pc = "done"
    /\ calc.exit = "open_failed"
    /\ newsletter = <<"Error creating newsletter">>
    /\ mail = "failed"

HistoryUnavailable ==
    \/ credentials # "valid"
    \/ calc.exit \in {"open_failed", "tab_missing", "read_failed", "no_rows", "no_valid"}

\* C7: with the credential file absent get_portfolio_history is never
\* called and the run goes on; and whenever the credentials are absent or
\* rejected, or the history read fails or parses no row, USER_PORTFOLIO is
\* the fallback list from the fallback step on, the generation step included.
C7_FallbackPortfolio ==
    /\ credentials = "absent" =>
          /\ ~gc
          /\ "get_portfolio_history" \notin Range(trace)
          /\ calc.exit = "not_called"
          /\ pc \notin {"halted", "done"} => ENABLED Next
    /\ (HistoryUnavailable /\ pc \in AfterNews \cup {"news", "halted"}) =>
          USER_PORTFOLIO = FallbackPortfolio
    /\ (HistoryUnavailable /\ newsletter # <<>> /\ newsletter[1] = "response.text") =>
          /\ newsletter[2].portfolio_string = FallbackPortfolio
          /\ newsletter[2].portfolio_history = <<"No historical data available.">>

\* the generation service answered a prompt built without a credential file
C7_Witness ==
    /\ credentials = "absent" /\ pc = "save"
    /\ newsletter[1] = "response.text"
    /\ newsletter[2].portfolio_string = FallbackPortfolio

---------------------------------------------------------------------------
(* Properties of find_closest_date *)

ObservedDates == {rows[i].date : i \in DOMAIN rows}
ParsableDates == {d \in ObservedDates : ParseDate(d) # None}

\* the observed date that sorts last as a string
LatestObserved ==
    CHOOSE d \in ObservedDates : \A e \in ObservedDates : DateLexRank[e] <= DateLexRank[d]

\* day distance of a parsable date d from the target, days before the latest date
DaysFromTarget(d, days) == Abs(Val(ParseDate(d)) - (Val(ParseDate(LatestObserved)) - days))

\* result is what the claim says find_closest_date returns for this look-back
ClosestAsClaimed(result, days) ==
    IF ParsableDates = {} \/ ParseDate(LatestObserved) = None
    THEN result = None
    ELSE /\ result # None
         /\ Val(result) \in ParsableDates
         /\ \A d \in ParsableDates :
               /\ DaysFromTarget(Val(result), days) <= DaysFromTarget(d, days)
               /\ DaysFromTarget(d, days) = DaysFromTarget(Val(result), days)
                     => DateLexRank[Val(result)] <= DateLexRank[d]

\* C11: find_closest_date returns a parsable observed date at minimal day
\* distance from the target (latest date minus 7 or 30 days), the first such
\* date of the lexicographically sorted list on a tie, and none only when
\* no observed date parses or the latest date does not parse.
C11_ClosestDateFirstMinimum ==
    Returned => /\ ClosestAsClaimed(calc.date_7d, 7)
                /\ ClosestAsClaimed(calc.date_30d, 30)

\* two observed dates equally far from the 7-day target; the one returned
\* sorts first as a string although it is the later day
C11_Witness ==
    /\ Returned /\ calc.date_7d # None
    /\ \E d \in ParsableDates :
          /\ d # Val(calc.date_7d)
          /\ DaysFromTarget(d, 7) = DaysFromTarget(Val(calc.date_7d), 7)
          /\ Val(ParseDate(d)) < Val(ParseDate(Val(calc.date_7d)))
====
